---- MODULE Spec2Model ----
(***************************************************************************)
(* A model of the user activity analyzer (package user_activity_analyzer): *)
(* the helpers of helpers.py, the classifier, the loader, the inactive-log *)
(* writer over a sqlite3 connection, and the orchestrating analyze().      *)
(*                                                                         *)
(* Python values are tagged records, so that values of different Python    *)
(* types can be held by one field and compared:                            *)
(*   None               [kind |-> "None"]                                  *)
(*   int n              [kind |-> "int", val |-> n]                        *)
(*   datetime           [kind |-> "datetime", wall, aware, off]            *)
(*   str                [kind |-> "str", fmt, ...]                         *)
(*   any other object   [kind |-> "other"]                                 *)
(* Instants are counted in hours. A datetime holds its wall-clock reading  *)
(* (wall), whether it carries a tzinfo (aware) and its UTC offset (off, 0  *)
(* for a naive value).                                                     *)
(***************************************************************************)
EXTENDS Integers, Sequences, FiniteSets

VARIABLES
    users,             \* storage: the users table, user_id -> stored last_login
    log_table_exists,  \* storage: the inactive_log table has been created
    log_committed,     \* storage: committed rows of inactive_log, in log_id order
    log_pending,       \* connection: rows inserted in the open transaction
    in_transaction,    \* connection: sqlite3.Connection.in_transaction
    clock,             \* the wall clock (datetime.now), in hours
    reference_time,    \* UserClassifier.reference_time
    classified_users,  \* UserActivityAnalyzer.classified_users
    calls,             \* number of analyze() and log_inactive_users() calls made
    successful_runs,   \* number of analyze() calls that returned a summary
    call,              \* the last call: the operation and its arguments
    ret                \* what the last call returned or raised

vars == << users, log_table_exists, log_committed, log_pending, in_transaction,
           clock, reference_time, classified_users, calls, successful_runs,
           call, ret >>

----------------------------------------------------------------------------
(* Constants of constants.py *)

CATEGORY_ACTIVE == "ACTIVE"
CATEGORY_DORMANT == "DORMANT"
CATEGORY_INACTIVE == "INACTIVE"

THRESHOLD_ACTIVE_DAYS == 7
THRESHOLD_DORMANT_DAYS == 30

\* datetime.timedelta.days counts whole days of 24 hours
HoursPerDay == 24

----------------------------------------------------------------------------
(* Python values *)

None == [kind |-> "None"]

PyInt(n) == [kind |-> "int", val |-> n]

PyDatetime(wall, aware, off) ==
    [kind |-> "datetime", wall |-> wall, aware |-> aware, off |-> off]

\* A string holding a timestamp. fmt is the way it is written:
\*   "iso"     ISO-8601, naive or with a numeric offset ("2025-01-01T12:00:00+02:00")
\*   "isoZ"    ISO-8601 with a literal Z suffix
\*   "loose"   matches %Y-%m-%d %H:%M:%S but is not ISO-8601 ("2025-1-5 9:00:00")
PyTimeStr(fmt, wall, aware, off) ==
    [kind |-> "str", fmt |-> fmt, wall |-> wall, aware |-> aware, off |-> off]

\* A string holding the decimal digits of n ("5")
PyIntStr(n) == [kind |-> "str", fmt |-> "int", val |-> n]

\* A string that is neither a timestamp nor a number ("invalid")
PyGarbageStr == [kind |-> "str", fmt |-> "garbage"]

\* An object that is none of the above (a float, bytes)
PyOther == [kind |-> "other"]

\* A call's outcome: a returned value or a raised exception
Return(v) == [ok |-> TRUE, val |-> v]
Raise(e) == [ok |-> FALSE, exc |-> e]

\* The instant a datetime denotes once it is timezone-aware, in hours UTC
UtcHours(dt) == dt.wall - dt.off

----------------------------------------------------------------------------
(* helpers.py *)

\* A mutant of validate_user_id: zero passes for a valid id (>= 0)
validate_user_id_non_negative(user_id) ==
    IF user_id.kind = "None" THEN FALSE
    ELSE IF user_id.kind = "int" THEN user_id.val >= 0
    ELSE IF user_id.kind = "str"
         THEN IF user_id.fmt = "int" THEN user_id.val >= 0 ELSE FALSE
    ELSE FALSE

validate_user_id(user_id) ==
    IF user_id.kind = "None" THEN FALSE
    ELSE IF user_id.kind = "int" THEN user_id.val > 0
    ELSE IF user_id.kind = "str"
         THEN \* int(user_id) > 0, False when int() raises
              IF user_id.fmt = "int" THEN user_id.val > 0 ELSE FALSE
    ELSE FALSE

\* datetime.fromisoformat(timestamp_str.replace('Z', '+00:00')), then
\* datetime.strptime(timestamp_str, "%Y-%m-%d %H:%M:%S"), then ValueError
parse_timestamp(timestamp_str) ==
    IF timestamp_str.fmt = "isoZ"
        THEN Return(PyDatetime(timestamp_str.wall, TRUE, 0))
    ELSE IF timestamp_str.fmt = "iso"
        THEN Return(PyDatetime(timestamp_str.wall, timestamp_str.aware,
                               timestamp_str.off))
    ELSE IF timestamp_str.fmt = "loose"
        THEN Return(PyDatetime(timestamp_str.wall, FALSE, 0))
    ELSE Raise("ValueError")

validate_timestamp(timestamp) ==
    IF timestamp.kind = "None" THEN FALSE
    ELSE IF timestamp.kind = "datetime" THEN TRUE
    ELSE IF timestamp.kind = "str" THEN parse_timestamp(timestamp).ok
    ELSE FALSE

\* last_login.replace(tzinfo=timezone.utc) when last_login.tzinfo is None
EnsureAware(dt) == IF dt.aware THEN dt ELSE PyDatetime(dt.wall, TRUE, 0)

\* A mutant of TimedeltaDays: the difference truncated toward zero
TimedeltaDaysTowardZero(hours) ==
    IF hours >= 0 THEN hours \div HoursPerDay ELSE 0 - ((0 - hours) \div HoursPerDay)

\* A mutant of TimedeltaDays: the difference rounded to the nearest day
TimedeltaDaysRounded(hours) == (hours + (HoursPerDay \div 2)) \div HoursPerDay

\* timedelta.days of a difference of so many hours: days may be negative while
\* the rest of the timedelta is never, so this is the floor
TimedeltaDays(hours) == hours \div HoursPerDay

convert_datetime_to_days_difference(last_login, reference) ==
    IF last_login.kind # "datetime" THEN Raise("ValueError")
    ELSE Return(TimedeltaDays(UtcHours(EnsureAware(reference))
                              - UtcHours(EnsureAware(last_login))))

\* A mutant of categorize_user: the ACTIVE boundary exclusive (< 7)
categorize_user_exclusive(days_since_login) ==
    IF days_since_login < 0 THEN CATEGORY_ACTIVE
    ELSE IF days_since_login < THRESHOLD_ACTIVE_DAYS THEN CATEGORY_ACTIVE
    ELSE IF days_since_login <= THRESHOLD_DORMANT_DAYS THEN CATEGORY_DORMANT
    ELSE CATEGORY_INACTIVE

categorize_user(days_since_login) ==
    IF days_since_login < 0 THEN CATEGORY_ACTIVE
    ELSE IF days_since_login <= THRESHOLD_ACTIVE_DAYS THEN CATEGORY_ACTIVE
    ELSE IF days_since_login <= THRESHOLD_DORMANT_DAYS THEN CATEGORY_DORMANT
    ELSE CATEGORY_INACTIVE

\* sum(1 for u in user_categories if u.get("category") == category)
RECURSIVE CountCategory(_, _)
CountCategory(user_categories, category) ==
    IF user_categories = << >> THEN 0
    ELSE (IF Head(user_categories).category = category THEN 1 ELSE 0)
         + CountCategory(Tail(user_categories), category)

\* A mutant of DatetimeLess: the comparison turned round (>)
DatetimeGreater(a, b) ==
    IF a.aware # b.aware THEN Raise("TypeError")
    ELSE Return(UtcHours(a) > UtcHours(b))

\* last_login < oldest_login on two datetimes: TypeError between a naive and an
\* aware one, else the order of the instants
DatetimeLess(a, b) ==
    IF a.aware # b.aware THEN Raise("TypeError")
    ELSE Return(UtcHours(a) < UtcHours(b))

\* The loop of lines 174-179 from entry i on; oldest_login is a Return of None
\* or of a datetime. An exception ends the loop.
RECURSIVE OldestLoginLoop(_, _, _)
OldestLoginLoop(user_categories, i, oldest_login) ==
    IF i > Len(user_categories) THEN oldest_login
    ELSE LET last_login == user_categories[i].last_login IN
         IF last_login.kind = "None"  \* "if last_login:" is false
         THEN OldestLoginLoop(user_categories, i + 1, oldest_login)
         ELSE IF oldest_login.val.kind = "None"
         THEN OldestLoginLoop(user_categories, i + 1, Return(last_login))
         ELSE LET less == DatetimeLess(last_login, oldest_login.val) IN
              IF ~less.ok THEN less
              ELSE OldestLoginLoop(user_categories, i + 1,
                                   IF less.val THEN Return(last_login)
                                   ELSE oldest_login)

\* INACTIVE entries that have a last_login
HasLoggedInInactive(user) ==
    user.category = CATEGORY_INACTIVE /\ user.last_login.kind # "None"

\* A mutant of build_summary_statistics: inactive_count leaves out the users
\* that never logged in
build_summary_statistics_logged_in(user_categories) ==
    IF user_categories = << >>
    THEN Return([total_users |-> 0, active_count |-> 0, dormant_count |-> 0,
                 inactive_count |-> 0, oldest_last_login |-> None])
    ELSE LET oldest_login == OldestLoginLoop(user_categories, 1, Return(None)) IN
         IF ~oldest_login.ok THEN oldest_login
         ELSE Return(
            [total_users |-> Len(user_categories),
             active_count |-> CountCategory(user_categories, CATEGORY_ACTIVE),
             dormant_count |-> CountCategory(user_categories, CATEGORY_DORMANT),
             inactive_count |-> Len(SelectSeq(user_categories, HasLoggedInInactive)),
             oldest_last_login |-> oldest_login.val])

build_summary_statistics(user_categories) ==
    IF user_categories = << >>
    THEN Return([total_users |-> 0, active_count |-> 0, dormant_count |-> 0,
                 inactive_count |-> 0, oldest_last_login |-> None])
    ELSE LET oldest_login == OldestLoginLoop(user_categories, 1, Return(None)) IN
         IF ~oldest_login.ok THEN oldest_login
         ELSE Return(
            [total_users |-> Len(user_categories),
             active_count |-> CountCategory(user_categories, CATEGORY_ACTIVE),
             dormant_count |-> CountCategory(user_categories, CATEGORY_DORMANT),
             inactive_count |-> CountCategory(user_categories, CATEGORY_INACTIVE),
             oldest_last_login |-> oldest_login.val])

----------------------------------------------------------------------------
(* user_classifier.py *)

\* A mutant of NeverLoggedIn: a category of its own
NeverLoggedInUnknown(user_id) ==
    [user_id |-> user_id, last_login |-> None,
     days_since_login |-> None, category |-> "UNKNOWN"]

\* The record of lines 53-58 for a user that never logged in
NeverLoggedIn(user_id) ==
    [user_id |-> user_id, last_login |-> None,
     days_since_login |-> None, category |-> "INACTIVE"]

classify_user(user_id, last_login, reference) ==
    IF ~validate_user_id(user_id) THEN Raise("ValueError")
    ELSE IF last_login.kind = "None" THEN Return(NeverLoggedIn(user_id))
    ELSE IF ~validate_timestamp(last_login) THEN Raise("ValueError")
    ELSE LET days_since_login ==
                 convert_datetime_to_days_difference(last_login, reference) IN
         IF ~days_since_login.ok THEN days_since_login
         ELSE Return([user_id |-> user_id, last_login |-> last_login,
                      days_since_login |-> PyInt(days_since_login.val),
                      category |-> categorize_user(days_since_login.val)])

\* The loop of classify_users from pair i on, classified so far in acc
RECURSIVE ClassifyLoop(_, _, _, _)
ClassifyLoop(pairs, i, acc, reference) ==
    IF i > Len(pairs) THEN Return(acc)
    ELSE LET classified_user ==
                 classify_user(pairs[i].user_id, pairs[i].last_login, reference) IN
         IF ~classified_user.ok THEN classified_user
         ELSE ClassifyLoop(pairs, i + 1, Append(acc, classified_user.val), reference)

\* A mutant of classify_users: each record put in front of the list
RECURSIVE ClassifyLoopInFront(_, _, _, _)
ClassifyLoopInFront(pairs, i, acc, reference) ==
    IF i > Len(pairs) THEN Return(acc)
    ELSE LET classified_user ==
                 classify_user(pairs[i].user_id, pairs[i].last_login, reference) IN
         IF ~classified_user.ok THEN classified_user
         ELSE ClassifyLoopInFront(pairs, i + 1, << classified_user.val >> \o acc,
                                  reference)

classify_users_in_front(pairs, reference) ==
    ClassifyLoopInFront(pairs, 1, << >>, reference)

classify_users(pairs, reference) == ClassifyLoop(pairs, 1, << >>, reference)

----------------------------------------------------------------------------
(* activity_loader.py *)

\* ORDER BY user_id: the ids of a set in ascending order
RECURSIVE OrderByUserId(_)
OrderByUserId(ids) ==
    IF ids = {} THEN << >>
    ELSE LET least == CHOOSE i \in ids : \A j \in ids : i <= j IN
         << least >> \o OrderByUserId(ids \ {least})

\* A mutant of LastLoginOf: a text that does not parse is taken for no login
LastLoginOfLenient(last_login_str) ==
    IF last_login_str.kind = "None" THEN Return(None)
    ELSE IF last_login_str.kind = "str"
         THEN (IF parse_timestamp(last_login_str).ok
               THEN parse_timestamp(last_login_str) ELSE Return(None))
    ELSE IF last_login_str.kind = "datetime" THEN Return(last_login_str)
    ELSE Return(None)

\* The last_login of one fetched row, lines 112-117
LastLoginOf(last_login_str) ==
    IF last_login_str.kind = "None" THEN Return(None)
    ELSE IF last_login_str.kind = "str" THEN parse_timestamp(last_login_str)
    ELSE IF last_login_str.kind = "datetime" THEN Return(last_login_str)
    ELSE Return(None)

\* The loop of lines 110-119 over the fetched rows from row i on
RECURSIVE LoadLoop(_, _, _, _)
LoadLoop(rows, order, i, result) ==
    IF i > Len(order) THEN Return(result)
    ELSE LET user_id == order[i]
             last_login == LastLoginOf(rows[user_id])
         IN  IF ~last_login.ok THEN last_login
             ELSE LoadLoop(rows, order, i + 1,
                           Append(result, [user_id |-> PyInt(user_id),
                                           last_login |-> last_login.val]))

\* rows: the users table the SELECT reads; fault: the storage fails on it
load_all_users_with_login(rows, fault) ==
    IF fault THEN Raise("ActivityLoaderError")
    ELSE LoadLoop(rows, OrderByUserId(DOMAIN rows), 1, << >>)

----------------------------------------------------------------------------
(* db_writer.py, over a sqlite3 connection in its default (implicit           *)
(* transaction) mode. A connection with its storage is the record             *)
(*   [exists, committed, pending, in_transaction];                            *)
(* the rows a SELECT on the connection sees are committed \o pending.         *)
(* fault names the statement on which the storage fails, if it is executed:   *)
(*   [stmt |-> "none"], "create", "ensure_commit", "begin", "commit", or      *)
(*   [stmt |-> "insert", n |-> k, begun |-> b]: the k-th INSERT of the call,  *)
(*   failing after (b) or before (~b) sqlite3 began its implicit transaction. *)

NoFault == [stmt |-> "none"]

\* sqlite3.Connection.commit()
Commit(db) == [db EXCEPT !.committed = db.committed \o db.pending,
                         !.pending = << >>,
                         !.in_transaction = FALSE]

\* sqlite3.Connection.rollback()
Rollback(db) == [db EXCEPT !.pending = << >>, !.in_transaction = FALSE]

\* datetime.isoformat()
isoformat(dt) == PyTimeStr("iso", dt.wall, dt.aware, dt.off)

ensure_inactive_log_table(db, fault) ==
    IF fault.stmt = "create"
    THEN [db |-> db, ret |-> Raise("DatabaseWriterError")]
    ELSE LET created == [db EXCEPT !.exists = TRUE] IN
         IF fault.stmt = "ensure_commit"
         THEN [db |-> created, ret |-> Raise("DatabaseWriterError")]
         ELSE [db |-> Commit(created), ret |-> Return(None)]

\* One INSERT; failing says whether this is the statement the storage fails on
log_inactive_user(db, user, failing, begun, now) ==
    IF failing
    THEN [db |-> [db EXCEPT !.in_transaction = db.in_transaction \/ begun],
          ret |-> Raise("DatabaseWriterError")]
    ELSE [db |-> [db EXCEPT
                    !.pending = Append(db.pending,
                        [user_id |-> user.user_id,
                         last_login |-> IF user.last_login.kind = "None"
                                        THEN None
                                        ELSE isoformat(user.last_login),
                         days_since_login |-> user.days_since_login,
                         logged_at |-> isoformat(PyDatetime(now, TRUE, 0))]),
                    !.in_transaction = TRUE],
          ret |-> Return(None)]

\* The loop of lines 119-124 from inactive user i on. The exception of
\* log_inactive_user is a DatabaseWriterError, which ends the loop.
RECURSIVE InsertLoop(_, _, _, _, _)
InsertLoop(db, inactive_users, i, fault, now) ==
    IF i > Len(inactive_users) THEN [db |-> db, ret |-> Return(None)]
    ELSE LET failing == fault.stmt = "insert" /\ fault.n = i
             one == log_inactive_user(db, inactive_users[i], failing,
                                      failing /\ fault.begun, now)
         IN  IF ~one.ret.ok THEN one
             ELSE InsertLoop(one.db, inactive_users, i + 1, fault, now)

\* A mutant of IsInactive: every user that is not ACTIVE is logged
IsNotActive(user) == user.category # CATEGORY_ACTIVE

\* user.get("category") == CATEGORY_INACTIVE
IsInactive(user) == user.category = CATEGORY_INACTIVE

\* A mutant of InactiveUsersOf: only the users with a last_login are logged
InactiveUsersWithLogin(users_classified) ==
    SelectSeq(users_classified, HasLoggedInInactive)

\* inactive_users, lines 107-110
InactiveUsersOf(users_classified) == SelectSeq(users_classified, IsInactive)

\* The handler of lines 131-134: it is entered for a sqlite3.Error only
ExceptSqliteError(db, use_transaction) ==
    [db |-> IF use_transaction THEN Rollback(db) ELSE db,
     ret |-> Raise("DatabaseWriterError")]

\* A mutant of log_inactive_users: the transaction is begun before the list of
\* inactive users is found empty
log_inactive_users_begin_first(db, users_classified, use_transaction, fault, now) ==
    LET ensured == ensure_inactive_log_table(db, fault)
        inactive_users == InactiveUsersOf(users_classified)
    IN
    IF ~ensured.ret.ok THEN ensured
    ELSE IF use_transaction /\ fault.stmt = "begin"
    THEN ExceptSqliteError(ensured.db, use_transaction)
    ELSE LET begun == IF use_transaction
                      THEN [ensured.db EXCEPT !.in_transaction = TRUE]
                      ELSE ensured.db
             inserted == InsertLoop(begun, inactive_users, 1, fault, now)
         IN
         IF inactive_users = << >> THEN [db |-> begun, ret |-> Return(PyInt(0))]
         ELSE IF ~inserted.ret.ok THEN inserted
         ELSE IF use_transaction /\ fault.stmt = "commit"
         THEN ExceptSqliteError(inserted.db, use_transaction)
         ELSE [db |-> IF use_transaction THEN Commit(inserted.db) ELSE inserted.db,
               ret |-> Return(PyInt(Len(inactive_users)))]

log_inactive_users(db, users_classified, use_transaction, fault, now) ==
    LET ensured == ensure_inactive_log_table(db, fault)
        inactive_users == InactiveUsersOf(users_classified)
    IN
    IF ~ensured.ret.ok THEN ensured
    ELSE IF inactive_users = << >> THEN [db |-> ensured.db, ret |-> Return(PyInt(0))]
    ELSE IF use_transaction /\ fault.stmt = "begin"
    THEN ExceptSqliteError(ensured.db, use_transaction)
    ELSE LET begun == IF use_transaction
                      THEN [ensured.db EXCEPT !.in_transaction = TRUE]
                      ELSE ensured.db
             inserted == InsertLoop(begun, inactive_users, 1, fault, now)
         IN
         \* a DatabaseWriterError is no sqlite3.Error: it leaves the try
         \* statement without entering its handler
         IF ~inserted.ret.ok THEN inserted
         ELSE IF use_transaction /\ fault.stmt = "commit"
         THEN ExceptSqliteError(inserted.db, use_transaction)
         ELSE [db |-> IF use_transaction THEN Commit(inserted.db) ELSE inserted.db,
               ret |-> Return(PyInt(Len(inactive_users)))]

----------------------------------------------------------------------------
(* analyzer.py *)

\* analyze() on the analyzer a = [db, classified_users] with the users table
\* rows, the classifier's reference and the clock reading now: the analyzer
\* after the call and what the call returned or raised
\* A mutant of analyze: the classified list is stored once the log is written
analyze_store_after_write(a, rows, reference, load_fault, write_fault, now) ==
    LET loaded == load_all_users_with_login(rows, load_fault) IN
    IF ~loaded.ok THEN [a |-> a, ret |-> loaded]
    ELSE
    LET classified == classify_users(loaded.val, reference) IN
    IF ~classified.ok THEN [a |-> a, ret |-> classified]
    ELSE
    LET written == log_inactive_users(a.db, classified.val, TRUE, write_fault, now)
        after == [db |-> written.db, classified_users |-> classified.val]
    IN
    IF ~written.ret.ok
    THEN [a |-> [db |-> written.db, classified_users |-> a.classified_users],
          ret |-> written.ret]
    ELSE [a |-> after, ret |-> build_summary_statistics(classified.val)]

\* A mutant of analyze: each run classifies against the clock reading of the
\* run instead of the classifier's reference instant
analyze_reference_now(a, rows, reference, load_fault, write_fault, now) ==
    LET loaded == load_all_users_with_login(rows, load_fault) IN
    IF ~loaded.ok THEN [a |-> a, ret |-> loaded]
    ELSE
    LET classified == classify_users(loaded.val, PyDatetime(now, TRUE, 0)) IN
    IF ~classified.ok THEN [a |-> a, ret |-> classified]
    ELSE
    LET written == log_inactive_users(a.db, classified.val, TRUE, write_fault, now)
        after == [db |-> written.db, classified_users |-> classified.val]
    IN
    IF ~written.ret.ok THEN [a |-> after, ret |-> written.ret]
    ELSE [a |-> after, ret |-> build_summary_statistics(classified.val)]

analyze(a, rows, reference, load_fault, write_fault, now) ==
    LET loaded == load_all_users_with_login(rows, load_fault) IN
    IF ~loaded.ok THEN [a |-> a, ret |-> loaded]
    ELSE
    LET classified == classify_users(loaded.val, reference) IN
    IF ~classified.ok THEN [a |-> a, ret |-> classified]
    ELSE
    LET written == log_inactive_users(a.db, classified.val, TRUE, write_fault, now)
        after == [db |-> written.db, classified_users |-> classified.val]
    IN
    IF ~written.ret.ok THEN [a |-> after, ret |-> written.ret]
    ELSE [a |-> after, ret |-> build_summary_statistics(classified.val)]

----------------------------------------------------------------------------
(* Bounds and the inputs drawn within them *)

MaxUserId == 2    \* the valid stored user ids are 1..MaxUserId
MaxCalls == 2     \* calls of analyze() and log_inactive_users() in a behaviour
MaxBatch == 2     \* length of a batch handed to classify_users
MaxDays == 40     \* categorize_user is applied to -MaxDays..MaxDays

\* The clock reading at construction, and the time from one call to the next
Now0 == 100 * HoursPerDay
TickHours == 40 * HoursPerDay

DaysAgo(d) == Now0 - d * HoursPerDay

\* Values of the last_login column in the system's behaviours
StoredValues ==
    { None,
      PyTimeStr("isoZ", DaysAgo(THRESHOLD_ACTIVE_DAYS + 1), TRUE, 0),
      PyTimeStr("loose", DaysAgo(45), FALSE, 0),
      PyGarbageStr,
      PyOther }

\* A users table holds rows for some of the ids 1..MaxUserId with any of the
\* values, and may hold a row with the id 0, which is no valid user id
StoredIds == 1 .. MaxUserId

Tables(values) ==
    LET valid == UNION { [ids -> values] : ids \in SUBSET StoredIds } IN
    valid \cup { [i \in DOMAIN t \cup {0} |-> IF i = 0 THEN None ELSE t[i]] :
                   t \in valid }

\* The reference instant of a classifier: given (naive or aware), or
\* datetime.now(timezone.utc) when none is given
ReferenceTimes ==
    { PyDatetime(Now0, TRUE, 0), PyDatetime(Now0, FALSE, 0) }

\* The reference instant of an analyzer: none given (the clock reading at
\* construction), or a given one, here a naive instant 20 days earlier
AnalyzerReferences ==
    { PyDatetime(Now0, TRUE, 0), PyDatetime(DaysAgo(20), FALSE, 0) }

\* The analyzer's reference instant: none is given to it
DefaultReference == { PyDatetime(Now0, TRUE, 0) }

\* The statements of one log_inactive_users call on which the storage can fail:
\* those the call executes, given how many INACTIVE users it is handed
WriterFaults(users_classified, use_transaction) ==
    LET n == Len(InactiveUsersOf(users_classified)) IN
    { [stmt |-> s] : s \in {"none", "create", "ensure_commit"} }
    \cup { [stmt |-> s] : s \in IF use_transaction /\ n > 0
                                 THEN {"begin", "commit"} ELSE {} }
    \cup { [stmt |-> "insert", n |-> k, begun |-> b] :
             k \in 1 .. n,
             b \in IF use_transaction THEN {TRUE} ELSE BOOLEAN }

\* Arguments of classify_user
HoursOfDay == {0, 1, 23}
ElapsedHours == { d * HoursPerDay + h : d \in -2 .. 32, h \in HoursOfDay }
LastLogins ==
    { None, PyOther, PyGarbageStr, PyTimeStr("isoZ", DaysAgo(1), TRUE, 0) }
    \cup { PyDatetime(Now0 - e + off, aware, off) :
             e \in ElapsedHours, aware \in {TRUE}, off \in {0, 2} }
    \cup { PyDatetime(Now0 - e, FALSE, 0) : e \in ElapsedHours }
UserIdValues ==
    { None, PyOther, PyGarbageStr, PyIntStr(0), PyIntStr(3) }
    \cup { PyInt(n) : n \in -1 .. MaxUserId }

\* Batches handed to classify_users
BatchPairs ==
    { [user_id |-> i, last_login |-> l] :
        i \in { None, PyInt(-1), PyInt(0), PyInt(1), PyInt(2) },
        l \in { None, PyDatetime(DaysAgo(45), TRUE, 0),
                PyDatetime(DaysAgo(10) + 2, TRUE, 2),
                PyDatetime(DaysAgo(3), FALSE, 0) } }
Batches == UNION { [1 .. n -> BatchPairs] : n \in 0 .. MaxBatch }

\* Values of the last_login column in the loader's and classifier's behaviours
BatchStoredValues ==
    { None,
      PyTimeStr("iso", DaysAgo(45), TRUE, 0),
      PyDatetime(DaysAgo(3), FALSE, 0),
      PyGarbageStr }

----------------------------------------------------------------------------
(* The state machine *)

NoCall == [op |-> "none"]

Connection == [exists |-> log_table_exists, committed |-> log_committed,
               pending |-> log_pending, in_transaction |-> in_transaction]

\* The rows a SELECT on the connection sees
Visible == log_committed \o log_pending

\* The call in call has not returned
Pending == [ok |-> FALSE, exc |-> "pending"]

InitStorage(tables, references) ==
    /\ users \in tables
    /\ log_table_exists = FALSE
    /\ log_committed = << >>
    /\ log_pending = << >>
    /\ in_transaction = FALSE
    /\ clock = Now0
    /\ reference_time \in references
    /\ classified_users = << >>
    /\ calls = 0
    /\ successful_runs = 0

\* UserActivityAnalyzer(db_connection) over a stored users table
Init ==
    /\ InitStorage(Tables(StoredValues), DefaultReference)
    /\ call = NoCall
    /\ ret = Return(None)

SetConnection(db) ==
    /\ log_table_exists' = db.exists
    /\ log_committed' = db.committed
    /\ log_pending' = db.pending
    /\ in_transaction' = db.in_transaction

\* What analyze() hands the writer when its load and classification succeed
WouldClassify ==
    LET loaded == load_all_users_with_login(users, FALSE) IN
    IF ~loaded.ok THEN << >>
    ELSE LET classified == classify_users(loaded.val, reference_time) IN
         IF classified.ok THEN classified.val ELSE << >>

\* analyzer.analyze(); the next call is made TickHours later
Analyze ==
    /\ calls < MaxCalls
    /\ \E load_fault \in BOOLEAN :
       \E write_fault \in IF load_fault THEN {NoFault}
                          ELSE WriterFaults(WouldClassify, TRUE) :
         LET r == analyze([db |-> Connection, classified_users |-> classified_users],
                          users, reference_time, load_fault, write_fault, clock)
         IN  /\ SetConnection(r.a.db)
             /\ classified_users' = r.a.classified_users
             /\ ret' = r.ret
             /\ successful_runs' = successful_runs + (IF r.ret.ok THEN 1 ELSE 0)
    /\ call' = [op |-> "analyze"]
    /\ calls' = calls + 1
    /\ clock' = clock + TickHours
    /\ UNCHANGED << users, reference_time >>

\* analyzer.writer.log_inactive_users(analyzer.get_classified_users(), use_transaction)
LogInactiveUsers ==
    /\ calls < MaxCalls
    /\ \E use_transaction \in BOOLEAN :
       \E fault \in WriterFaults(classified_users, use_transaction) :
         LET r == log_inactive_users(Connection, classified_users, use_transaction,
                                     fault, clock)
         IN  /\ SetConnection(r.db)
             /\ ret' = r.ret
             /\ call' = [op |-> "log_inactive_users",
                         use_transaction |-> use_transaction]
    /\ calls' = calls + 1
    /\ clock' = clock + TickHours
    /\ UNCHANGED << users, reference_time, classified_users, successful_runs >>

\* A user the last analysis found INACTIVE logs in again: the application
\* records the login, and the user's last_login becomes now
RecordLogin ==
    /\ \E u \in DOMAIN users :
         /\ \E i \in 1 .. Len(classified_users) :
              /\ classified_users[i].user_id = PyInt(u)
              /\ classified_users[i].category = CATEGORY_INACTIVE
         /\ users[u] # isoformat(PyDatetime(clock, TRUE, 0))
         /\ users' = [users EXCEPT ![u] = isoformat(PyDatetime(clock, TRUE, 0))]
    /\ UNCHANGED << log_table_exists, log_committed, log_pending, in_transaction,
                    clock, reference_time, classified_users, calls,
                    successful_runs, call, ret >>

Next == Analyze \/ LogInactiveUsers \/ RecordLogin

Spec == Init /\ [][Next]_vars

\* The application calls analyze() only
NextRuns == Analyze \/ RecordLogin

SpecRuns == Init /\ [][NextRuns]_vars

\* UserActivityAnalyzer(db_connection, reference_time), with or without a
\* reference_time, and analyze() calls only
InitReference ==
    /\ InitStorage(Tables(StoredValues), AnalyzerReferences)
    /\ call = NoCall
    /\ ret = Return(None)

SpecReference == InitReference /\ [][NextRuns]_vars

----------------------------------------------------------------------------
(* The helpers and the classifier applied to drawn arguments: the initial    *)
(* state holds the call about to be made, the action makes it.  These calls  *)
(* read the classifier's reference instant and no storage.                   *)

StorageUnchanged ==
    UNCHANGED << users, log_table_exists, log_committed, log_pending,
                 in_transaction, clock, reference_time, classified_users, calls,
                 successful_runs >>

HelperCalls ==
    { [op |-> "categorize_user", days_since_login |-> d] :
        d \in (0 - MaxDays) .. MaxDays }
    \cup { [op |-> "classify_user", user_id |-> i, last_login |-> l] :
             i \in UserIdValues, l \in LastLogins }

\* categorize_user(days_since_login)
CategorizeUserCall ==
    /\ call.op = "categorize_user"
    /\ ret = Pending
    /\ ret' = Return(categorize_user(call.days_since_login))
    /\ UNCHANGED call
    /\ StorageUnchanged

\* classifier.classify_user(user_id, last_login)
ClassifyUserCall ==
    /\ call.op = "classify_user"
    /\ ret = Pending
    /\ ret' = classify_user(call.user_id, call.last_login, reference_time)
    /\ UNCHANGED call
    /\ StorageUnchanged

InitHelpers ==
    /\ InitStorage({ << >> }, ReferenceTimes)
    /\ call \in HelperCalls
    /\ ret = Pending

NextHelpers == CategorizeUserCall \/ ClassifyUserCall

SpecHelpers == InitHelpers /\ [][NextHelpers]_vars

----------------------------------------------------------------------------
(* The loader, the batch classifier and the summary builder applied in the   *)
(* order analyze() applies them to a stored users table, and the classifier  *)
(* and the summary builder applied to drawn batches.                         *)

\* loader.load_all_users_with_login()
LoadAllUsersCall ==
    /\ call.op = "load_all_users_with_login"
    /\ ret = Pending
    /\ \E fault \in BOOLEAN : ret' = load_all_users_with_login(users, fault)
    /\ UNCHANGED call
    /\ StorageUnchanged

\* classifier.classify_users(users): of the drawn batch, or of the list the
\* loader has just returned (loaded)
ClassifyUsersCall ==
    /\ \/ /\ call.op = "classify_users"
          /\ ret = Pending
          /\ UNCHANGED call
          /\ ret' = classify_users(call.users, reference_time)
       \/ /\ call.op = "load_all_users_with_login"
          /\ ret.ok
          /\ call' = [op |-> "classify_users", users |-> ret.val, loaded |-> TRUE]
          /\ ret' = classify_users(ret.val, reference_time)
    /\ StorageUnchanged

\* build_summary_statistics(user_categories) of the list classify_users has
\* just returned
BuildSummaryCall ==
    /\ call.op = "classify_users"
    /\ ret.ok
    /\ call' = [op |-> "build_summary_statistics", user_categories |-> ret.val]
    /\ ret' = build_summary_statistics(ret.val)
    /\ StorageUnchanged

InitBatch ==
    /\ ret = Pending
    /\ \/ /\ InitStorage({ << >> }, DefaultReference)
          /\ call \in { [op |-> "classify_users", users |-> b, loaded |-> FALSE] :
                          b \in Batches }
       \/ /\ InitStorage(Tables(BatchStoredValues), DefaultReference)
          /\ call = [op |-> "load_all_users_with_login"]

NextBatch == LoadAllUsersCall \/ ClassifyUsersCall \/ BuildSummaryCall

SpecBatch == InitBatch /\ [][NextBatch]_vars

----------------------------------------------------------------------------
(* Properties *)

\* The step is a call of op that has returned or raised
CallStep(op) == calls' = calls + 1 /\ call'.op = op

\* The rows of log that carry the user id
RowsOf(log, user_id) == { j \in 1 .. Len(log) : log[j].user_id = user_id }

\* The indices of the INACTIVE entries of a classified list
InactiveAt(list) == { i \in 1 .. Len(list) : list[i].category = "INACTIVE" }

\* The log row carries the classified entry's user_id, last_login and
\* days_since_login: its last_login text reads back as the entry's last_login
RowCarries(row, entry) ==
    /\ row.user_id = entry.user_id
    /\ row.days_since_login = entry.days_since_login
    /\ IF entry.last_login.kind = "None"
       THEN row.last_login = None
       ELSE /\ row.last_login.kind = "str"
            /\ parse_timestamp(row.last_login) = Return(entry.last_login)

\* The last call wrote the log in a transaction of its own
TransactionalWrite ==
    \/ call.op = "analyze"
    \/ call.op = "log_inactive_users" /\ call.use_transaction

\* C1 (as claimed): when a log_inactive_users call that writes in a
\* transaction of its own has failed with a storage fault, the connection
\* holds no row of its batch.  (Every row that was pending before the call was
\* committed by the call's ensure_inactive_log_table, so a row pending after
\* the call is a row of its batch.)  The transaction the call began is left
\* open in the same states, and also when the first INSERT is the one to fail.
C1_FailedBatchLeavesNoRows ==
    (TransactionalWrite /\ ~ret.ok /\ ret.exc = "DatabaseWriterError"
       /\ log_table_exists /\ log_committed = << >>)
        => log_pending = << >>

\* C2: categorize_user(d) is ACTIVE iff d <= 7, DORMANT iff 8 <= d <= 30 and
\* INACTIVE iff d > 30, and always one of the three.
C2_CategorizeThresholds ==
    (call.op = "categorize_user" /\ ret.ok) =>
        LET d == call.days_since_login IN
        /\ ret.val \in {"ACTIVE", "DORMANT", "INACTIVE"}
        /\ (ret.val = "ACTIVE") <=> (d <= 7)
        /\ (ret.val = "DORMANT") <=> (8 <= d /\ d <= 30)
        /\ (ret.val = "INACTIVE") <=> (d > 30)

C2_Witness ==
    /\ call.op = "categorize_user"
    /\ ret.ok
    /\ call.days_since_login = 8
    /\ ret.val = "DORMANT"

\* C3: a log_inactive_users call that returns (made directly, or by an
\* analyze() that returns) has inserted, after the rows already in the log,
\* exactly one row for each INACTIVE entry of the list it was handed, carrying
\* that entry's user_id, last_login and days_since_login, no row for any other
\* entry, and returns the number of rows it inserted.
C3_OneRowPerInactiveEntry ==
    [][ ((CallStep("log_inactive_users") \/ CallStep("analyze")) /\ ret'.ok) =>
          LET before == Len(Visible)
              added == SubSeq(Visible', before + 1, Len(Visible'))
              list == classified_users'
          IN  /\ SubSeq(Visible', 1, before) = Visible
              /\ Len(added) = Cardinality(InactiveAt(list))
              /\ call'.op = "log_inactive_users" => ret'.val = PyInt(Len(added))
              /\ \A i \in InactiveAt(list) :
                   Cardinality(RowsOf(added, list[i].user_id)) = 1
              /\ \A j \in 1 .. Len(added) :
                   \E i \in InactiveAt(list) : RowCarries(added[j], list[i])
      ]_vars

C3_Witness ==
    /\ call.op = "log_inactive_users"
    /\ ret.ok
    /\ ret.val = PyInt(1)
    /\ \E i \in 1 .. Len(classified_users) :
         classified_users[i].category = "DORMANT"
    /\ \E i \in 1 .. Len(classified_users) :
         /\ classified_users[i].category = "INACTIVE"
         /\ classified_users[i].last_login.kind = "datetime"
    /\ Len(Visible) >= 2

\* C4: the summary built from a list the classifier produced has
\* active_count + dormant_count + inactive_count = total_users = len(list).
C4_CountsSumToTotal ==
    (call.op = "build_summary_statistics" /\ ret.ok) =>
        /\ ret.val.active_count + ret.val.dormant_count + ret.val.inactive_count
             = ret.val.total_users
        /\ ret.val.total_users = Len(call.user_categories)

C4_Witness ==
    /\ call.op = "build_summary_statistics"
    /\ ret.ok
    /\ ret.val.total_users = 2
    /\ ret.val.active_count = 1
    /\ ret.val.inactive_count = 1

\* C5: an analyze() run that returns a summary has added to the inactive log
\* as many rows as the summary's inactive_count.
C5_InactiveCountIsRowsAdded ==
    [][ (CallStep("analyze") /\ ret'.ok) =>
          /\ SubSeq(Visible', 1, Len(Visible)) = Visible
          /\ Len(Visible') - Len(Visible) = ret'.val.inactive_count
      ]_vars

C5_Witness ==
    /\ call.op = "analyze"
    /\ ret.ok
    /\ ret.val.inactive_count = 2
    /\ ret.val.total_users = 2
    /\ Len(log_committed) = 2

\* The users table is as it was at construction: no login has been recorded
UsersUnchanged == \A u \in DOMAIN users : users[u] \in StoredValues

\* C6 (as claimed): over an unchanged users table, after n successful
\* analyze() runs the log holds n rows for each INACTIVE user.  (Stated for the
\* tables whose summary can be built, so that a run that wrote its rows is a
\* run that returned.)
C6_RowsPerInactiveUserIsRuns ==
    (UsersUnchanged /\ build_summary_statistics(WouldClassify).ok) =>
        \A i \in InactiveAt(WouldClassify) :
            Cardinality(RowsOf(log_committed, WouldClassify[i].user_id))
                = successful_runs

\* A stored row that makes the load or the classification fail
BadRow(u) ==
    \/ u <= 0
    \/ users[u].kind = "str" /\ users[u].fmt \notin {"iso", "isoZ", "loose"}

\* C7: an analyze() run over a table with an unparseable last_login text or an
\* invalid user id fails, and a run that fails in loading or classification
\* inserts no log row, begins no transaction and returns no summary.
C7_FailFast ==
    [][ CallStep("analyze") =>
          /\ (\E u \in DOMAIN users : BadRow(u)) =>
                (~ret'.ok /\ ret'.exc \in {"ValueError", "ActivityLoaderError"})
          /\ (~ret'.ok /\ ret'.exc \in {"ValueError", "ActivityLoaderError"}) =>
                UNCHANGED << log_table_exists, log_committed, log_pending,
                             in_transaction, classified_users, successful_runs >>
      ]_vars

C7_Witness ==
    /\ call.op = "analyze"
    /\ ~ret.ok
    /\ ret.exc = "ValueError"
    /\ \E u \in DOMAIN users : u > 0 /\ BadRow(u)
    /\ \E u \in DOMAIN users : u > 0 /\ users[u] = None
    /\ Visible = << >>
    /\ ~in_transaction
    /\ classified_users = << >>

\* The argument is a valid user id: a positive integer
PositiveInt(user_id) == user_id.kind = "int" /\ user_id.val > 0

\* C8: classify_user of a valid user id and no last_login returns category
\* INACTIVE with no days_since_login, whatever the reference instant; the
\* record is counted in inactive_count and selected for the inactive log.
C8_NeverLoggedInIsInactive ==
    (call.op = "classify_user" /\ ret # Pending
       /\ PositiveInt(call.user_id) /\ call.last_login = None) =>
        /\ ret.ok
        /\ ret.val.user_id = call.user_id
        /\ ret.val.last_login = None
        /\ ret.val.days_since_login = None
        /\ ret.val.category = "INACTIVE"
        /\ build_summary_statistics(<< ret.val >>).val.inactive_count = 1
        /\ InactiveUsersOf(<< ret.val >>) = << ret.val >>

C8_Witness ==
    /\ call.op = "classify_user"
    /\ ret.ok
    /\ call.last_login = None
    /\ ~reference_time.aware
    /\ ret.val.category = "INACTIVE"

\* C9 (as claimed): a classified record has days_since_login None exactly
\* when its last_login is None, and otherwise a non-negative integer.
C9_DaysNonNegative ==
    (call.op = "classify_user" /\ ret.ok) =>
        /\ (ret.val.days_since_login = None) <=> (ret.val.last_login = None)
        /\ ret.val.days_since_login # None =>
              /\ ret.val.days_since_login.kind = "int"
              /\ ret.val.days_since_login.val >= 0

\* C9 (amended): a classified record has days_since_login None exactly when
\* its last_login is None, and otherwise an integer that is non-negative
\* exactly when the last_login is not later than the reference instant.
C9_DaysNoneIffNoLogin ==
    (call.op = "classify_user" /\ ret.ok) =>
        /\ (ret.val.days_since_login = None) <=> (ret.val.last_login = None)
        /\ ret.val.days_since_login # None =>
              /\ ret.val.days_since_login.kind = "int"
              /\ (ret.val.days_since_login.val >= 0)
                   <=> (ret.val.last_login.wall - ret.val.last_login.off
                          <= reference_time.wall - reference_time.off)

C9_Witness ==
    /\ call.op = "classify_user"
    /\ ret.ok
    /\ ret.val.days_since_login # None
    /\ ret.val.days_since_login.val < 0
    /\ ret.val.category = "ACTIVE"

\* The pair holds arguments classify_user accepts
ValidPair(pair) ==
    PositiveInt(pair.user_id) /\ pair.last_login.kind \in {"None", "datetime"}

\* C10: classify_users of n valid pairs returns n records, the i-th with the
\* user_id and last_login of the i-th pair; of the loaded list, it returns one
\* record for each stored user, in ascending order of user_id.
C10_OrderAndLengthPreserved ==
    (call.op = "classify_users" /\ ret # Pending) =>
        /\ (\A i \in 1 .. Len(call.users) : ValidPair(call.users[i])) => ret.ok
        /\ ret.ok =>
             /\ Len(ret.val) = Len(call.users)
             /\ \A i \in 1 .. Len(ret.val) :
                  /\ ret.val[i].user_id = call.users[i].user_id
                  /\ ret.val[i].last_login = call.users[i].last_login
        /\ (ret.ok /\ call.loaded) =>
             /\ Len(ret.val) = Cardinality(DOMAIN users)
             /\ \A u \in DOMAIN users :
                  Cardinality(RowsOf(ret.val, PyInt(u))) = 1
             /\ \A i, j \in 1 .. Len(ret.val) :
                  i < j => ret.val[i].user_id.val < ret.val[j].user_id.val

C10_Witness ==
    /\ call.op = "classify_users"
    /\ call.loaded
    /\ ret.ok
    /\ Len(ret.val) = 2
    /\ ret.val[1].category # ret.val[2].category

\* The argument is no valid user id: None, or an integer that is not positive
InvalidId(user_id) ==
    user_id.kind = "None" \/ (user_id.kind = "int" /\ user_id.val <= 0)

\* C11: classify_users of a batch that holds an invalid user id (None or an
\* integer <= 0) at any position raises ValueError and returns no record; a
\* list it returns holds no record with a non-positive id.
C11_InvalidIdFailsBatch ==
    (call.op = "classify_users" /\ ret # Pending) =>
        /\ (\E i \in 1 .. Len(call.users) : InvalidId(call.users[i].user_id)) =>
               (~ret.ok /\ ret.exc = "ValueError")
        /\ ret.ok => \A i \in 1 .. Len(ret.val) : PositiveInt(ret.val[i].user_id)

C11_Witness ==
    /\ call.op = "classify_users"
    /\ ret = Raise("ValueError")
    /\ Len(call.users) = 2
    /\ ValidPair(call.users[1])
    /\ call.users[2].user_id = PyInt(0)
    /\ call.users[2].last_login.kind = "datetime"

\* C12: a log_inactive_users call on a list with no INACTIVE entry (made
\* directly with either use_transaction, or by an analyze() that classified
\* no user INACTIVE) inserts no row and begins no transaction, whether it
\* returns or fails in ensuring the table, and when it returns it returns 0.
C12_NoInactiveNoWrite ==
    [][ (\/ CallStep("log_inactive_users") /\ InactiveAt(classified_users) = {}
         \/ CallStep("analyze") /\ ret'.ok /\ ret'.val.inactive_count = 0) =>
          /\ Visible' = Visible
          /\ in_transaction' => in_transaction
          /\ (call'.op = "log_inactive_users" /\ ret'.ok) => ret'.val = PyInt(0)
          /\ ret'.ok => ~in_transaction'
      ]_vars

C12_Witness ==
    /\ call.op = "log_inactive_users"
    /\ call.use_transaction
    /\ ret = Return(PyInt(0))
    /\ classified_users # << >>
    /\ InactiveAt(classified_users) = {}
    /\ log_table_exists
    /\ Visible = << >>
    /\ ~in_transaction

\* The last_login values of the entries of a classified list that have one
LoginsOf(list) ==
    { list[i].last_login : i \in { k \in 1 .. Len(list) : list[k].last_login # None } }

\* C13: the summary built from a list has oldest_last_login None when no entry
\* has a last_login, and otherwise the last_login of an entry that no other
\* entry's last_login precedes; the summary of the empty list has all counts
\* zero and oldest_last_login None.
C13_OldestIsMinimum ==
    (call.op = "build_summary_statistics" /\ ret.ok) =>
        LET list == call.user_categories
            oldest == ret.val.oldest_last_login
        IN  /\ LoginsOf(list) = {} => oldest = None
            /\ LoginsOf(list) # {} =>
                  /\ oldest \in LoginsOf(list)
                  /\ \A l \in LoginsOf(list) : UtcHours(oldest) <= UtcHours(l)
            /\ list = << >> =>
                  ret.val = [total_users |-> 0, active_count |-> 0,
                             dormant_count |-> 0, inactive_count |-> 0,
                             oldest_last_login |-> None]

C13_Witness ==
    /\ call.op = "build_summary_statistics"
    /\ ret.ok
    /\ Len(call.user_categories) = 2
    /\ call.user_categories[1].last_login # None
    /\ call.user_categories[2].last_login # call.user_categories[1].last_login
    /\ ret.val.oldest_last_login = call.user_categories[2].last_login
    /\ ret.val.oldest_last_login.off # call.user_categories[1].last_login.off

\* C14 (as claimed): when log_inactive_users has returned a count n > 0, with
\* either value of use_transaction, the n rows are committed and no
\* transaction is open on the connection.
C14_ReturnedBatchIsCommitted ==
    (call.op = "log_inactive_users" /\ ret.ok /\ ret.val.val > 0) =>
        /\ log_pending = << >>
        /\ ~in_transaction
        /\ Len(log_committed) >= ret.val.val

\* The hours from the record's last_login to the reference instant, a naive
\* value read as UTC
ElapsedSince(record) ==
    (reference_time.wall - reference_time.off)
        - (record.last_login.wall - record.last_login.off)

\* C15: for a last_login at or before the reference instant, days_since_login
\* is the number q of full days elapsed (q days <= elapsed < q + 1 days), a
\* naive last_login or reference read as UTC; 7 days 23 hours gives 7 and
\* ACTIVE.
C15_WholeDaysTruncated ==
    (call.op = "classify_user" /\ ret.ok /\ ret.val.last_login # None
       /\ ElapsedSince(ret.val) >= 0) =>
        LET q == ret.val.days_since_login.val
            elapsed == ElapsedSince(ret.val)
        IN  /\ q >= 0
            /\ q * 24 <= elapsed
            /\ elapsed < (q + 1) * 24
            /\ elapsed = 7 * 24 + 23 => (q = 7 /\ ret.val.category = "ACTIVE")

C15_Witness ==
    /\ call.op = "classify_user"
    /\ ret.ok
    /\ ret.val.last_login # None
    /\ ~ret.val.last_login.aware
    /\ reference_time.aware
    /\ ElapsedSince(ret.val) = 7 * 24 + 23
    /\ ret.val.days_since_login = PyInt(7)
    /\ ret.val.category = "ACTIVE"

\* The run got as far as storing its classified list
ClassificationCompleted(r) ==
    r.ok \/ r.exc \notin {"ValueError", "ActivityLoaderError"}

\* C16: the analyzer's reference instant never changes, and every record an
\* analyze() run classifies has the days_since_login and the category of its
\* last_login counted from that instant, whatever the clock reads at the run.
C16_ReferenceFixed ==
    [][ /\ reference_time' = reference_time
        /\ (CallStep("analyze") /\ ClassificationCompleted(ret')) =>
              \A i \in 1 .. Len(classified_users') :
                LET record == classified_users'[i] IN
                record.last_login # None =>
                  /\ record.days_since_login =
                        PyInt(TimedeltaDays(UtcHours(EnsureAware(reference_time))
                                            - UtcHours(EnsureAware(record.last_login))))
                  /\ record.category = categorize_user(record.days_since_login.val)
      ]_vars

C16_Witness ==
    /\ call.op = "analyze"
    /\ ret.ok
    /\ calls = 2
    /\ successful_runs = 2
    /\ ~reference_time.aware
    /\ clock - reference_time.wall > 2 * TickHours
    /\ \E i \in 1 .. Len(classified_users) :
         /\ classified_users[i].days_since_login = PyInt(25)
         /\ classified_users[i].category = "DORMANT"

\* C17 (as claimed): a row a failed log_inactive_users call left inserted on
\* the connection is not in the committed log after any later step.  (With
\* analyze() calls only, every row pending between calls was inserted by a
\* call that failed; rows of different calls differ in logged_at.)
C17_FailedRowsNeverCommitted ==
    [][ \A j \in 1 .. Len(log_pending) :
          \A k \in 1 .. Len(log_committed') :
            log_committed'[k] # log_pending[j]
      ]_vars

\* C18 (as claimed): an analyze() run that commits its batch to the inactive
\* log returns a summary.  (Stated for runs that start with no row pending,
\* so that the rows the run commits are rows of its own batch.)
C18_CommittedRunReturnsSummary ==
    [][ (CallStep("analyze") /\ log_pending = << >>
           /\ log_committed' # log_committed) => ret'.ok
      ]_vars

\* The list is a complete classification of the users table: one record for
\* each stored user, in ascending order of user_id, each with a category
CompleteFor(list, table) ==
    /\ Len(list) = Cardinality(DOMAIN table)
    /\ \A u \in DOMAIN table : Cardinality(RowsOf(list, PyInt(u))) = 1
    /\ \A i, j \in 1 .. Len(list) :
         i < j => list[i].user_id.val < list[j].user_id.val
    /\ \A i \in 1 .. Len(list) :
         list[i].category \in {"ACTIVE", "DORMANT", "INACTIVE"}

\* C19: the analyzer's classified list changes only in an analyze() run whose
\* classification completed, which replaces it by the complete classification
\* of the users table even when the run's log write then fails; a run that
\* fails in loading or classifying, and every other step, leaves it as it was.
C19_ClassifiedListNeverPartial ==
    [][ IF CallStep("analyze") /\ ClassificationCompleted(ret')
        THEN /\ CompleteFor(classified_users', users)
             /\ classified_users' = WouldClassify
        ELSE classified_users' = classified_users
      ]_vars

C19_Witness ==
    /\ call.op = "analyze"
    /\ ret = Raise("DatabaseWriterError")
    /\ calls = 1
    /\ Len(classified_users) = 2
    /\ CompleteFor(classified_users, users)
    /\ InactiveAt(classified_users) # {}
    /\ log_committed = << >>

\* C20 (as claimed): a record an analyze() run classifies has last_login None
\* only when the stored last_login of its user is null, so that no user with
\* a stored value is classified as never logged in.
C20_NoneOnlyForNullLogin ==
    [][ (CallStep("analyze") /\ ClassificationCompleted(ret')) =>
          \A i \in 1 .. Len(classified_users') :
            classified_users'[i].last_login = None =>
              users[classified_users'[i].user_id.val] = None
      ]_vars

====










